---------------------------- MODULE Spec2Model ----------------------------
(***************************************************************************)
(* A model of linebreak.NodeList (src/linebreak.py): the Knuth-Plass line  *)
(* breaker of quran-typesetter.  One NodeList object is built from a       *)
(* bounded choice of items, optionally closed with add_closing_penalty,    *)
(* and compute_breakpoints is then run on it step by step.                 *)
(*                                                                         *)
(* Python floats are modelled by exact rationals.  An adjustment ratio is  *)
(* a record [n, d] (n/d, d > 0) of machine integers; demerits, whose       *)
(* numerators exceed the integers TLC can hold, are records                *)
(* [pos, neg, den] of arbitrary-precision naturals standing for            *)
(* (pos - neg)/den.                                                        *)
(***************************************************************************)
EXTENDS Integers, Sequences, FiniteSets

\* ------------------------------------------------------------------ bounds

\* The longest item list the NodeList is built with, before closing.
MaxLen == 3

\* The longest item list of the runs that look at looseness (SpecLoose).
MaxLooseLen == 4

\* The longest list of lines the LineList is built with (SpecPages).
MaxLines == 4

\* The most breaks the page breaker's loop is followed for (SpecPages).
MaxBreaks == 6

\* ---------------------------------------------------------------- constants

INFINITY == 1000

\* Default values of compute_breakpoints' keyword arguments.
fitness_demerit == 100
flagged_demerit == 100

\* Document.leading, the height of a line of text.
leading == 29

\* -------------------------------------------------- arbitrary-size naturals
\* A natural number is the sequence of its base-BASE digits, least
\* significant first, with no leading zero digit; zero is << >>.

BASE == 100 * 100

RECURSIVE BigOf(_)
BigOf(k) == IF k = 0 THEN << >> ELSE <<k % BASE>> \o BigOf(k \div BASE)

RECURSIVE BigAddC(_, _, _)
BigAddC(a, b, c) ==
    IF a = << >> /\ b = << >>
    THEN IF c = 0 THEN << >> ELSE <<c>>
    ELSE LET x == IF a = << >> THEN 0 ELSE Head(a)
             y == IF b = << >> THEN 0 ELSE Head(b)
             s == x + y + c
             ta == IF a = << >> THEN << >> ELSE Tail(a)
             tb == IF b = << >> THEN << >> ELSE Tail(b)
         IN  <<s % BASE>> \o BigAddC(ta, tb, s \div BASE)

BigAdd(a, b) == BigAddC(a, b, 0)

RECURSIVE BigMulDigit(_, _, _)
BigMulDigit(a, dg, c) ==
    IF a = << >>
    THEN IF c = 0 THEN << >> ELSE <<c>>
    ELSE LET s == Head(a) * dg + c
         IN  <<s % BASE>> \o BigMulDigit(Tail(a), dg, s \div BASE)

RECURSIVE BigMul(_, _)
BigMul(a, b) ==
    IF a = << >> \/ b = << >>
    THEN << >>
    ELSE LET rest == BigMul(a, Tail(b))
             shifted == IF rest = << >> THEN << >> ELSE <<0>> \o rest
             low == IF Head(b) = 0 THEN << >> ELSE BigMulDigit(a, Head(b), 0)
         IN  BigAdd(low, shifted)

\* a < b, comparing from the most significant digit down.
RECURSIVE BigLessFrom(_, _, _)
BigLessFrom(a, b, k) ==
    IF k = 0 THEN FALSE
    ELSE IF a[k] # b[k] THEN a[k] < b[k]
    ELSE BigLessFrom(a, b, k - 1)

BigLess(a, b) ==
    IF Len(a) # Len(b) THEN Len(a) < Len(b) ELSE BigLessFrom(a, b, Len(a))

\* ------------------------------------------------- demerits (float values)
\* [pos, neg, den] stands for (pos - neg) / den, den > 0.

DemOfInt(k) ==
    IF k >= 0 THEN [pos |-> BigOf(k), neg |-> << >>, den |-> BigOf(1)]
    ELSE [pos |-> << >>, neg |-> BigOf(-k), den |-> BigOf(1)]

DemAdd(x, y) ==
    [pos |-> BigAdd(BigMul(x.pos, y.den), BigMul(y.pos, x.den)),
     neg |-> BigAdd(BigMul(x.neg, y.den), BigMul(y.neg, x.den)),
     den |-> BigMul(x.den, y.den)]

DemLess(x, y) ==
    BigLess(BigAdd(BigMul(x.pos, y.den), BigMul(y.neg, x.den)),
            BigAdd(BigMul(y.pos, x.den), BigMul(x.neg, y.den)))

\* ------------------------------------------------------------------- items

Box(w) ==
    [kind |-> "box", width |-> w, stretch |-> 0, shrink |-> 0,
     penalty |-> 0, flagged |-> 0]

Glue(w, y, z) ==
    [kind |-> "glue", width |-> w, stretch |-> y, shrink |-> z,
     penalty |-> 0, flagged |-> 0]

Penalty(w, p, f) ==
    [kind |-> "penalty", width |-> w, stretch |-> 0, shrink |-> 0,
     penalty |-> p, flagged |-> f]

is_forced_break(node) == node.kind = "penalty" /\ node.penalty = -INFINITY

\* The items a NodeList is built from.
ItemChoices ==
    { Box(1), Box(2), Glue(1, 1, 1),
      Penalty(1, 50, 1), Penalty(0, -5, 1),
      Penalty(0, -INFINITY, 0), Penalty(0, INFINITY, 0) }

\* The items of the longer lists of SpecLoose.
LooseItemChoices ==
    { Box(1), Box(2), Glue(1, 1, 1), Penalty(1, 50, 1), Penalty(0, -INFINITY, 0) }

\* The arguments compute_breakpoints is called with.
LineLengthChoices == { << >>, <<2>>, <<3>>, <<1, 3>> }
ToleranceChoices == { 1, 4 }
LoosenessChoices == { -1, 0, 1, 2 }

ClosingItems ==
    << Penalty(0, INFINITY, 0), Glue(0, INFINITY, 0), Penalty(0, -INFINITY, 1) >>

RECURSIVE SeqsUpTo(_, _)
SeqsUpTo(S, k) ==
    IF k = 0 THEN { << >> }
    ELSE LET shorter == SeqsUpTo(S, k - 1)
         IN  shorter \cup { Append(s, x) : s \in { t \in shorter : Len(t) = k - 1 }, x \in S }

\* ------------------------------------------------------------------- state

VARIABLES
    items,          \* the NodeList itself: its items, item i at index i + 1
    sum_width,      \* self.sum_width: sum_width[i + 1] is the dict's value at key i;
    sum_stretch,    \*   << >> while the attribute is not set
    sum_shrink,
    line_lengths,   \* the arguments of the running call
    looseness,
    tolerance,
    pc,             \* "idle", "scan", "inner", "done"
    i,              \* the index of the main loop
    nodes,          \* every _BreakNode created, in order of creation
    active_nodes,   \* the active list, as indices into nodes
    todo,           \* what is left of the snapshot active_nodes[:]
    breaks,         \* the candidates recorded for position i, as indices into nodes
    chosen,         \* the node the backtrace starts from (A at line 460), 0 if none
    result,         \* the returned list of positions
    error,          \* "none", or the exception raised
    ratio_call,     \* the last call of compute_adjustment_ratio that returned:
                    \*   its arguments, its locals length and available_length,
                    \*   and its result r; pos1 = -1 before the first call
    drawn,          \* Page.draw: the number of lines drawn so far
    text_width,     \* Page.draw: the text_width of the line drawn last
    start,          \* _process_chapter: start, the first item of the next line
    made,           \* _process_chapter: the number of lines made so far
    box_width,      \* _process_chapter: box.width of every item once a line is
                    \*   made, as the fraction [n, d]; << >> before that
    height,         \* LineList.compute_breakpoints: the height of the page so far
    last            \* LineList.compute_breakpoints: the glue remembered last

vars == << items, sum_width, sum_stretch, sum_shrink, line_lengths, looseness,
           tolerance, pc, i, nodes, active_nodes, todo, breaks, chosen, result,
           error, ratio_call, drawn, text_width, start, made, box_width,
           height, last >>

m == Len(items)

Item(k) == items[k + 1]

\* ------------------------------------------------------------- NodeList

\* is_feasible_breakpoint with the glue test mistaken: any glue is a breakpoint.
is_feasible_breakpoint_any_glue(s, k) ==
    LET node == s[k + 1]
    IN  IF node.kind = "penalty" /\ node.penalty < INFINITY THEN TRUE
        ELSE IF k > 0 /\ node.kind = "glue" THEN TRUE
        ELSE FALSE

\* is_feasible_breakpoint with its glue branch left out.
is_feasible_breakpoint_penalty_only(s, k) ==
    LET node == s[k + 1]
    IN  node.kind = "penalty" /\ node.penalty < INFINITY

is_feasible_breakpoint(s, k) ==
    LET node == s[k + 1]
    IN  IF node.kind = "penalty" /\ node.penalty < INFINITY THEN TRUE
        ELSE IF k > 0 /\ node.kind = "glue" /\ s[k].kind = "box" THEN TRUE
        ELSE FALSE

\* The running sums built by compute_breakpoints: entry k + 1 is the total of
\* the items before item k.
RECURSIVE RunningSum(_, _, _)
RunningSum(s, field, k) ==
    IF k = 0 THEN 0 ELSE RunningSum(s, field, k - 1) + s[k][field]

\* The running sums with item k counted in the entry of key k.
PrefixSumsInclusive(s, field) == [k \in 1..Len(s) |-> RunningSum(s, field, k)]

PrefixSums(s, field) == [k \in 1..Len(s) |-> RunningSum(s, field, k - 1)]

measure_width(pos1, pos2) == sum_width[pos2 + 1] - sum_width[pos1 + 1]

measure_stretch(pos1, pos2) == sum_stretch[pos2 + 1] - sum_stretch[pos1 + 1]

measure_shrink(pos1, pos2) == sum_shrink[pos2 + 1] - sum_shrink[pos1 + 1]

\* The entries of line_lengths taken round and round.
available_length_cycled(line, ll) == ll[(line % Len(ll)) + 1]

\* The target length of a line; line_lengths is not empty.
available_length(line, ll) ==
    IF line < Len(ll) THEN ll[line + 1] ELSE ll[Len(ll)]

\* length with the width of the Penalty at pos2 left out.
natural_length_without_penalty(pos1, pos2) == measure_width(pos1, pos2)

\* length: the width from pos1 to pos2, and the width of a Penalty at pos2.
natural_length(pos1, pos2) ==
    measure_width(pos1, pos2)
    + (IF Item(pos2).kind = "penalty" THEN Item(pos2).width ELSE 0)

\* The ratio n/d as [n, d]; the INFINITY sentinel is 1000/1.
compute_adjustment_ratio(pos1, pos2, line, ll) ==
    LET length == natural_length(pos1, pos2)
        avail == available_length(line, ll)
        y == measure_stretch(pos1, pos2)
        z == measure_shrink(pos1, pos2)
    IN  IF length < avail
        THEN IF y > 0 THEN [n |-> avail - length, d |-> y]
             ELSE [n |-> INFINITY, d |-> 1]
        ELSE IF length > avail
        THEN IF z > 0 THEN [n |-> avail - length, d |-> z]
             ELSE [n |-> INFINITY, d |-> 1]
        ELSE [n |-> 0, d |-> 1]

\* r < -1
BelowMinusOne(r) == r.n < -r.d

\* The test for a usable line with its lower bound forgotten.
IsUsableNoLowerBound(r, tol) == r.n <= tol * r.d

\* -1 <= r <= tolerance
IsUsable(r, tol) == -r.d <= r.n /\ r.n <= tol * r.d

\* The fitness class with r = 1 counted as very loose.
FitnessClassLooseBelowOne(r) ==
    IF 2 * r.n < -r.d THEN 0
    ELSE IF 2 * r.n <= r.d THEN 1
    ELSE IF r.n < r.d THEN 2
    ELSE 3

FitnessClass(r) ==
    IF 2 * r.n < -r.d THEN 0
    ELSE IF 2 * r.n <= r.d THEN 1
    ELSE IF r.n <= r.d THEN 2
    ELSE 3

Abs(k) == IF k < 0 THEN -k ELSE k

BigCube(a) == BigMul(a, BigMul(a, a))

BigSquare(a) == BigMul(a, a)

\* The demerits with the formula of line 377 taken for every item B.
BaseDemeritsAlwaysSquared(r, B) ==
    LET n3 == BigCube(BigOf(Abs(r.n)))
        d3 == BigCube(BigOf(r.d))
        hundred == BigMul(BigOf(100), n3)
    IN  [pos |-> BigSquare(BigAdd(d3, hundred)),
         neg |-> << >>,
         den |-> BigSquare(d3)]

\* The demerits of the line of ratio r ending at item B, before the
\* flagged and fitness additions.
BaseDemerits(r, B) ==
    LET n3 == BigCube(BigOf(Abs(r.n)))
        d3 == BigCube(BigOf(r.d))
        hundred == BigMul(BigOf(100), n3)
    IN  IF B.penalty >= 0
        THEN [pos |-> BigCube(BigAdd(BigMul(BigOf(1 + B.penalty), d3), hundred)),
              neg |-> << >>,
              den |-> BigCube(d3)]
        ELSE IF is_forced_break(B)
        THEN [pos |-> BigSquare(BigAdd(d3, hundred)),
              neg |-> BigMul(BigOf(B.penalty * B.penalty), BigSquare(d3)),
              den |-> BigSquare(d3)]
        ELSE [pos |-> BigSquare(BigAdd(d3, hundred)),
              neg |-> << >>,
              den |-> BigSquare(d3)]

\* The demerits recorded in the node for the line from node A to item B.
LineDemerits(r, B, A) ==
    LET flag == flagged_demerit * B.flagged * Item(A.position).flagged
        fit == IF Abs(FitnessClass(r) - A.fitness_class) > 1
               THEN fitness_demerit ELSE 0
    IN  DemAdd(BaseDemerits(r, B), DemOfInt(flag + fit))

\* ------------------------------------------------------ the active list
\* Nodes are records of the arena ns; the active list holds their indices.

BreakNode(position, line, fitness_class, demerits, previous) ==
    [position |-> position, line |-> line, fitness_class |-> fitness_class,
     totalwidth |-> sum_width[position + 1],
     totalstretch |-> sum_stretch[position + 1],
     totalshrink |-> sum_shrink[position + 1],
     demerits |-> demerits, previous |-> previous]

\* list.remove: the list without the first occurrence of x.
RECURSIVE Remove(_, _)
Remove(list, x) ==
    IF list = << >> THEN << >>
    ELSE IF Head(list) = x THEN Tail(list)
    ELSE <<Head(list)>> \o Remove(Tail(list), x)

\* The deactivation with the test for the last node left out.
deactivate_always(active, a) == Remove(active, a)

\* Deactivate node A: the last node of the list is never removed.
deactivate(active, a) ==
    IF Len(active) = 1 THEN active ELSE Remove(active, a)

\* The insertion point taken at the front of the list.
InsertIndexFront(ns, active, ln, idx) == idx

\* The first index (from idx on) whose node's line is not below ln.
RECURSIVE InsertIndex(_, _, _, _)
InsertIndex(ns, active, ln, idx) ==
    IF idx <= Len(active) /\ ns[active[idx]].line < ln
    THEN InsertIndex(ns, active, ln, idx + 1)
    ELSE idx

\* The search for a match left out.
HasMatchNever(ns, active, node, idx) == FALSE

\* Whether a node of the same line, fitness class and position as node
\* stands among the nodes of that line from idx on.
RECURSIVE HasMatch(_, _, _, _)
HasMatch(ns, active, node, idx) ==
    IF idx <= Len(active) /\ ns[active[idx]].line = node.line
    THEN IF ns[active[idx]].fitness_class = node.fitness_class
            /\ ns[active[idx]].position = node.position
         THEN TRUE
         ELSE HasMatch(ns, active, node, idx + 1)
    ELSE FALSE

InsertAt(list, idx, x) ==
    SubSeq(list, 1, idx - 1) \o <<x>> \o SubSeq(list, idx, Len(list))

\* add_active_nodes with the matched node of the list giving way to the
\* candidate that matches it.
RECURSIVE add_active_nodes_replacing(_, _, _)
add_active_nodes_replacing(ns, active, brks) ==
    IF brks = << >> THEN active
    ELSE LET node == ns[Head(brks)]
             idx == InsertIndex(ns, active, node.line, 1)
         IN  IF HasMatch(ns, active, node, idx)
             THEN [k \in 1 .. Len(active) |->
                      IF /\ ns[active[k]].line = node.line
                         /\ ns[active[k]].fitness_class = node.fitness_class
                         /\ ns[active[k]].position = node.position
                      THEN Head(brks) ELSE active[k]]
             ELSE add_active_nodes_replacing(ns, InsertAt(active, idx, Head(brks)),
                                             Tail(brks))

\* add_active_nodes: a match makes the method return, leaving out the rest.
RECURSIVE add_active_nodes(_, _, _)
add_active_nodes(ns, active, brks) ==
    IF brks = << >> THEN active
    ELSE LET node == ns[Head(brks)]
             idx == InsertIndex(ns, active, node.line, 1)
         IN  IF HasMatch(ns, active, node, idx)
             THEN active
             ELSE add_active_nodes(ns, InsertAt(active, idx, Head(brks)), Tail(brks))

\* ------------------------------------------------------- choosing a node

\* min(active_nodes, key=demerits): the first node of least demerits.
RECURSIVE MinDemerits(_, _, _)
MinDemerits(ns, active, best) ==
    IF active = << >> THEN best
    ELSE IF DemLess(ns[Head(active)].demerits, ns[best].demerits)
    THEN MinDemerits(ns, Tail(active), Head(active))
    ELSE MinDemerits(ns, Tail(active), best)

MinNode(ns, active) == MinDemerits(ns, Tail(active), Head(active))

\* delta with the line of the minimum-demerits node left out.
LineDeltaNoBase(br_line, A_line) == br_line

\* The difference taken the other way round.
LineDeltaReversed(br_line, A_line) == A_line - br_line

\* delta = br.line - A.line
LineDelta(br_line, A_line) == br_line - A_line

\* The looseness loop; st is [d, b]: d the demerits to beat, b the node
\* found so far (0 while b is unbound).  best stays 0 throughout.
RECURSIVE LoosenessLoop(_, _, _, _, _)
LoosenessLoop(ns, active, A_line, q, st) ==
    IF active = << >> THEN st
    ELSE LET br == ns[Head(active)]
             delta == LineDelta(br.line, A_line)
             best == 0
             next ==
                 IF (q <= delta /\ delta < best) \/ (best < delta /\ delta < q)
                 THEN [d |-> br.demerits, b |-> Head(active)]
                 ELSE IF delta = best /\ DemLess(br.demerits, st.d)
                 THEN [d |-> br.demerits, b |-> Head(active)]
                 ELSE st
         IN  LoosenessLoop(ns, Tail(active), A_line, q, next)

\* The node the backtrace starts from; 0 when b is never assigned.
ChooseNode(ns, active, q) ==
    LET A == MinNode(ns, active)
    IN  IF q # 0
        THEN LoosenessLoop(ns, active, ns[A].line, q,
                           [d |-> DemOfInt(INFINITY), b |-> 0]).b
        ELSE A

\* The positions from the root to node k.
RECURSIVE Backtrace(_, _)
Backtrace(ns, k) ==
    IF k = 0 THEN << >> ELSE Append(Backtrace(ns, ns[k].previous), ns[k].position)

\* ----------------------------------------------------------------- actions

\* The item list ends with the three items of add_closing_penalty.
Closed == m >= 3 /\ SubSeq(items, m - 2, m) = ClosingItems

\* The test of line 272 left out.
EmptyInputNever(len) == FALSE

\* m == 0
EmptyInput(len) == len = 0

\* No call of compute_adjustment_ratio yet.
NoRatioCall ==
    [pos1 |-> -1, pos2 |-> -1, line |-> -1, length |-> 0,
     available_length |-> 0, r |-> [n |-> 0, d |-> 1]]

Init ==
    /\ items \in SeqsUpTo(ItemChoices, MaxLen)
    /\ sum_width = << >>
    /\ sum_stretch = << >>
    /\ sum_shrink = << >>
    /\ line_lengths = << >>
    /\ looseness = 0
    /\ tolerance = 1
    /\ pc = "idle"
    /\ i = 0
    /\ nodes = << >>
    /\ active_nodes = << >>
    /\ todo = << >>
    /\ breaks = << >>
    /\ chosen = 0
    /\ result = << >>
    /\ error = "none"
    /\ ratio_call = NoRatioCall
    /\ drawn = 0
    /\ text_width = 0
    /\ start = 0
    /\ made = 0
    /\ box_width = << >>
    /\ height = 0
    /\ last = 0

\* Applied once to a list, as the callers do (quran-typesetter.py line 286).
add_closing_penalty ==
    /\ pc = "idle"
    /\ ~Closed
    /\ items' = items \o ClosingItems
    /\ UNCHANGED << sum_width, sum_stretch, sum_shrink, line_lengths, looseness,
                    tolerance, pc, i, nodes, active_nodes, todo, breaks, chosen,
                    result, error >>
    /\ UNCHANGED << ratio_call, drawn, text_width, start, made, box_width,
                    height, last >>

\* The call, up to the start of the main loop.  The argument looseness is
\* read at line 434 alone, and is drawn there (choose_node).
compute_breakpoints ==
    /\ pc = "idle"
    /\ \E ll \in LineLengthChoices, tol \in ToleranceChoices :
        /\ line_lengths' = ll
        /\ tolerance' = tol
    /\ IF EmptyInput(m)
       THEN /\ pc' = "done"
            /\ result' = << >>
            /\ UNCHANGED << sum_width, sum_stretch, sum_shrink, nodes, active_nodes >>
       ELSE /\ sum_width' = PrefixSums(items, "width")
            /\ sum_stretch' = PrefixSums(items, "stretch")
            /\ sum_shrink' = PrefixSums(items, "shrink")
            /\ nodes' = << [position |-> 0, line |-> 0, fitness_class |-> 1,
                            totalwidth |-> 0, totalstretch |-> 0, totalshrink |-> 0,
                            demerits |-> DemOfInt(0), previous |-> 0] >>
            /\ active_nodes' = << 1 >>
            /\ pc' = "scan"
            /\ UNCHANGED result
    /\ UNCHANGED << items, looseness, i, todo, breaks, chosen, error >>
    /\ UNCHANGED << ratio_call, drawn, text_width, start, made, box_width,
                    height, last >>

\* One turn of the main loop, up to the loop over the active nodes.
scan_item ==
    /\ pc = "scan"
    /\ i < m
    /\ IF is_feasible_breakpoint(items, i)
       THEN /\ todo' = active_nodes
            /\ breaks' = << >>
            /\ pc' = "inner"
            /\ UNCHANGED i
       ELSE /\ i' = i + 1
            /\ UNCHANGED << todo, breaks, pc >>
    /\ UNCHANGED << items, sum_width, sum_stretch, sum_shrink, line_lengths,
                    looseness, tolerance, nodes, active_nodes, chosen, result, error >>
    /\ UNCHANGED << ratio_call, drawn, text_width, start, made, box_width,
                    height, last >>

\* One turn of the loop over the snapshot of the active nodes.
scan_active ==
    /\ pc = "inner"
    /\ todo # << >>
    /\ IF line_lengths = << >>
       THEN /\ error' = "IndexError"
            /\ pc' = "done"
            /\ UNCHANGED << nodes, active_nodes, todo, breaks, ratio_call >>
       ELSE LET a == Head(todo)
                A == nodes[a]
                B == Item(i)
                r == compute_adjustment_ratio(A.position, i, A.line, line_lengths)
                kept == IF BelowMinusOne(r) \/ is_forced_break(B)
                        THEN deactivate(active_nodes, a)
                        ELSE active_nodes
            IN  /\ ratio_call' =
                       [pos1 |-> A.position, pos2 |-> i, line |-> A.line,
                        length |-> natural_length(A.position, i),
                        available_length |-> available_length(A.line, line_lengths),
                        r |-> r]
                /\ active_nodes' = kept
                /\ todo' = Tail(todo)
                /\ IF IsUsable(r, tolerance)
                   THEN /\ nodes' = Append(nodes,
                               BreakNode(i, A.line + 1, FitnessClass(r),
                                         LineDemerits(r, B, A), a))
                        /\ breaks' = Append(breaks, Len(nodes) + 1)
                   ELSE UNCHANGED << nodes, breaks >>
                /\ UNCHANGED << pc, error >>
    /\ UNCHANGED << items, sum_width, sum_stretch, sum_shrink, line_lengths,
                    looseness, tolerance, i, chosen, result, drawn, text_width,
                    start, made, box_width, height, last >>

\* The end of a turn of the main loop: the candidates join the active list.
insert_breaks ==
    /\ pc = "inner"
    /\ todo = << >>
    /\ active_nodes' = IF breaks # << >>
                       THEN add_active_nodes(nodes, active_nodes, breaks)
                       ELSE active_nodes
    /\ i' = i + 1
    /\ pc' = "scan"
    /\ UNCHANGED << items, sum_width, sum_stretch, sum_shrink, line_lengths,
                    looseness, tolerance, nodes, todo, breaks, chosen, result, error >>
    /\ UNCHANGED << ratio_call, drawn, text_width, start, made, box_width,
                    height, last >>

\* After the main loop: the choice of the final node and the backtrace.
choose_node ==
    /\ pc = "scan"
    /\ i = m
    /\ \E q \in LoosenessChoices :
        /\ looseness' = q
        /\ LET b == ChooseNode(nodes, active_nodes, q)
           IN  IF b = 0
               THEN /\ error' = "UnboundLocalError"
                    /\ UNCHANGED << chosen, result >>
               ELSE /\ chosen' = b
                    /\ result' = Backtrace(nodes, b)
                    /\ UNCHANGED error
    /\ pc' = "done"
    /\ UNCHANGED << items, sum_width, sum_stretch, sum_shrink, line_lengths,
                    tolerance, i, nodes, active_nodes, todo, breaks >>
    /\ UNCHANGED << ratio_call, drawn, text_width, start, made, box_width,
                    height, last >>

\* Document.get_text_width; text_widths[-1] is the last entry.
get_text_width(line, text_widths) ==
    LET final == Len(text_widths) - 1
        index == IF line >= Len(text_widths) THEN final ELSE line
    IN  text_widths[index + 1]

\* The assert of _process_chapter on the list returned (line 152).
BreaksAccepted ==
    /\ pc = "done"
    /\ error = "none"
    /\ result # << >>
    /\ result[Len(result)] = m - 1

\* compute_width for the ratio r = [n, d], as the fraction [n, d].
compute_width(node, r) ==
    IF r.n < 0
    THEN [n |-> node.width * r.d + r.n * node.shrink, d |-> r.d]
    ELSE [n |-> node.width * r.d + r.n * node.stretch, d |-> r.d]

\* One turn of the loop of _process_chapter over breaks[1:]: the ratio of
\* the line is computed again, from start, and the Glue of the line is set
\* to its width.
process_line ==
    /\ BreaksAccepted
    /\ made < Len(result) - 1
    /\ LET breakpoint == result[made + 2]
           ratio == compute_adjustment_ratio(start, breakpoint, made, line_lengths)
           widths == IF box_width = << >>
                     THEN [j \in 1 .. m |-> [n |-> items[j].width, d |-> 1]]
                     ELSE box_width
       IN  /\ ratio_call' =
                  [pos1 |-> start, pos2 |-> breakpoint, line |-> made,
                   length |-> natural_length(start, breakpoint),
                   available_length |-> available_length(made, line_lengths),
                   r |-> ratio]
           /\ box_width' =
                  [j \in 1 .. m |->
                      IF start <= j - 1 /\ j - 1 < breakpoint /\ items[j].kind = "glue"
                      THEN compute_width(items[j], ratio)
                      ELSE widths[j]]
           /\ start' = breakpoint + 1
    /\ made' = made + 1
    /\ UNCHANGED << items, sum_width, sum_stretch, sum_shrink, line_lengths,
                    looseness, tolerance, pc, i, nodes, active_nodes, todo,
                    breaks, chosen, result, error, drawn, text_width, height,
                    last >>

\* One turn of the loop of Page.draw over the lines made (Document.save
\* draws after the lines are made).  The Document's text_widths are the line
\* lengths of the call (quran-typesetter.py line 149).
draw_line ==
    /\ BreaksAccepted
    /\ made = Len(result) - 1
    /\ drawn < made
    /\ text_width' = get_text_width(drawn, line_lengths)
    /\ drawn' = drawn + 1
    /\ UNCHANGED << items, sum_width, sum_stretch, sum_shrink, line_lengths,
                    looseness, tolerance, pc, i, nodes, active_nodes, todo,
                    breaks, chosen, result, error, ratio_call, start, made,
                    box_width, height, last >>

Next ==
    \/ add_closing_penalty
    \/ compute_breakpoints
    \/ scan_item
    \/ scan_active
    \/ insert_breaks
    \/ choose_node
    \/ process_line
    \/ draw_line

Spec == Init /\ [][Next]_vars

\* Longer lists of fewer kinds of items: runs that end with active nodes of
\* three different line counts, which the looseness loop tells apart.
InitLoose ==
    /\ items \in SeqsUpTo(LooseItemChoices, MaxLooseLen)
    /\ sum_width = << >>
    /\ sum_stretch = << >>
    /\ sum_shrink = << >>
    /\ line_lengths = << >>
    /\ looseness = 0
    /\ tolerance = 1
    /\ pc = "idle"
    /\ i = 0
    /\ nodes = << >>
    /\ active_nodes = << >>
    /\ todo = << >>
    /\ breaks = << >>
    /\ chosen = 0
    /\ result = << >>
    /\ error = "none"
    /\ ratio_call = NoRatioCall
    /\ drawn = 0
    /\ text_width = 0
    /\ start = 0
    /\ made = 0
    /\ box_width = << >>
    /\ height = 0
    /\ last = 0

SpecLoose == InitLoose /\ [][Next]_vars

\* A call that returned a list.
Returned == pc = "done" /\ error = "none"

\* ------------------------------------------------------------- LineList

\* The lines of a document, with heights in tenths of a unit so that the
\* height of a heading, leading * 1.8, is a whole number.  A Line is a box
\* and a LineGlue is a glue of linebreak; height is a copy of width.
Line ==
    [kind |-> "box", width |-> 10 * leading, height |-> 10 * leading,
     stretch |-> 0, shrink |-> 0, penalty |-> 0, flagged |-> 0]

Heading ==
    [kind |-> "box", width |-> 10 * leading, height |-> 18 * leading,
     stretch |-> 0, shrink |-> 0, penalty |-> 0, flagged |-> 0]

\* _process_chapter makes every LineGlue with the default height, 0, and
\* gives the last one of a chapter the stretch leading.
LineGlue(y) ==
    [kind |-> "glue", width |-> 0, height |-> 0,
     stretch |-> y, shrink |-> 0, penalty |-> 0, flagged |-> 0]

LineChoices == { Line, Heading, LineGlue(0), LineGlue(10 * leading) }

\* Document.lines_per_page of the documents looked at.
LinesPerPageChoices == { 1, 2, 3 }

\* _create_pages: lengths = [self.leading * self.lines_per_page], so the
\* document's lines_per_page can be read back from the page length.
lines_per_page == line_lengths[1] \div (10 * leading)

\* length = line_lengths[line if line < len(line_lengths) else -1]
page_length(line, lengths) ==
    IF line < Len(lengths) THEN lengths[line + 1] ELSE lengths[Len(lengths)]

\* _create_pages calls lines.compute_breakpoints(lengths): the sums are
\* stored and the locals of the loop are set up.
LineList_compute_breakpoints ==
    /\ pc = "idle"
    /\ \E lpp \in LinesPerPageChoices :
          line_lengths' = << 10 * leading * lpp >>
    /\ sum_width' = PrefixSums(items, "height")
    /\ sum_shrink' = PrefixSums(items, "shrink")
    /\ sum_stretch' = PrefixSums(items, "stretch")
    /\ breaks' = << 0 >>
    /\ height' = 0
    /\ last' = 0
    /\ i' = 0
    /\ pc' = "paging"
    /\ UNCHANGED << items, looseness, tolerance, nodes, active_nodes, todo,
                    chosen, result, error, ratio_call, drawn, text_width,
                    start, made, box_width >>

\* The height of the page once the node at i is added to it.
page_height == height + items[i + 1].height

\* The node at i is no box and the page is higher than its length.
page_overflow ==
    /\ items[i + 1].kind # "box"
    /\ page_height > page_length(Len(breaks), line_lengths)

\* One turn of the while loop.
page_step ==
    /\ pc = "paging"
    /\ i < Len(items)
    /\ Len(breaks) <= MaxBreaks
    /\ LET length == page_length(Len(breaks), line_lengths)
       IN  IF items[i + 1].kind = "box"
           THEN /\ height' = page_height
                /\ i' = i + 1
                /\ UNCHANGED << breaks, last >>
           ELSE IF page_height > length
           THEN /\ breaks' = Append(breaks, last)
                /\ height' = 0
                /\ i' = last + 1
                /\ UNCHANGED last
           ELSE IF page_height = length
           THEN /\ breaks' = Append(breaks, i)
                /\ height' = 0
                /\ i' = i + 1
                /\ UNCHANGED last
           ELSE /\ last' = i
                /\ height' = page_height
                /\ i' = i + 1
                /\ UNCHANGED breaks
    /\ UNCHANGED << items, sum_width, sum_stretch, sum_shrink, line_lengths,
                    looseness, tolerance, pc, nodes, active_nodes, todo,
                    chosen, result, error, ratio_call, drawn, text_width,
                    start, made, box_width >>

\* assert i - last <= self.doc.lines_per_page * 2, for every break after
\* the first, last being the break before it.
pages_not_overflowing(list) ==
    \A k \in 2 .. Len(list) : list[k] - list[k - 1] <= lines_per_page * 2

\* The loop is over: the last break is added, the pages are checked and the
\* list is returned.  The locals are gone with the return.
page_return ==
    /\ pc = "paging"
    /\ i >= Len(items)
    /\ LET closed == IF breaks[Len(breaks)] # Len(items) - 1
                     THEN Append(breaks, Len(items) - 1) ELSE breaks
       IN  /\ breaks' = closed
           /\ IF pages_not_overflowing(<< 0 >> \o Tail(closed))
              THEN result' = closed /\ error' = "none"
              ELSE result' = << >> /\ error' = "AssertionError"
    /\ pc' = "paged"
    /\ UNCHANGED << items, sum_width, sum_stretch, sum_shrink, line_lengths,
                    looseness, tolerance, i, nodes, active_nodes, todo,
                    chosen, ratio_call, drawn, text_width, start, made,
                    box_width, height, last >>

\* A LineList of a bounded choice of lines, before its breakpoints are
\* computed.
InitPages ==
    /\ items \in SeqsUpTo(LineChoices, MaxLines)
    /\ sum_width = << >>
    /\ sum_stretch = << >>
    /\ sum_shrink = << >>
    /\ line_lengths = << >>
    /\ looseness = 0
    /\ tolerance = 1
    /\ pc = "idle"
    /\ i = 0
    /\ nodes = << >>
    /\ active_nodes = << >>
    /\ todo = << >>
    /\ breaks = << >>
    /\ chosen = 0
    /\ result = << >>
    /\ error = "none"
    /\ ratio_call = NoRatioCall
    /\ drawn = 0
    /\ text_width = 0
    /\ start = 0
    /\ made = 0
    /\ box_width = << >>
    /\ height = 0
    /\ last = 0

NextPages ==
    \/ LineList_compute_breakpoints
    \/ page_step
    \/ page_return

SpecPages == InitPages /\ [][NextPages]_vars

\* A call of the page breaker that returned a list.
PagesReturned == pc = "paged" /\ error = "none"

\* ------------------------------------------------------------------ claims

Last(list) == list[Len(list)]

Positions(list) == { list[k] : k \in 1..Len(list) }

\* -1 <= r <= tol, for a ratio r = [n, d].
InRange(r, tol) == -r.d <= r.n /\ r.n <= tol * r.d

\* The ratio of line k (from 0) of a break list.
LineRatio(list, k) ==
    compute_adjustment_ratio(list[k + 1], list[k + 2], k, line_lengths)

\* C1: for a non-empty sequence to which add_closing_penalty was applied,
\* whatever the line lengths, tolerance and looseness, the list
\* compute_breakpoints returns is not empty and its last element is
\* len(sequence) - 1, the position of the closing forced Penalty.
C1_EndsAtClosingPenalty ==
    (Returned /\ Closed) => (result # << >> /\ Last(result) = m - 1)

\* C2: for a non-empty sequence the returned list has first element 0 and
\* is strictly increasing.
C2_StrictlyIncreasingFromZero ==
    (Returned /\ m > 0) =>
        /\ result # << >>
        /\ result[1] = 0
        /\ \A k \in 1..(Len(result) - 1) : result[k] < result[k + 1]

\* The break positions strictly inside the sequence.
FeasibleInner == { k \in 1..(m - 2) : is_feasible_breakpoint(items, k) }

RECURSIVE SortedSeq(_)
SortedSeq(S) ==
    IF S = {} THEN << >>
    ELSE LET least == CHOOSE x \in S : \A y \in S : x <= y
         IN  <<least>> \o SortedSeq(S \ {least})

\* The break list from 0 to the last item through the positions S.
PathOf(S) == <<0>> \o SortedSeq(S) \o <<m - 1>>

\* The lines k, k + 1, ... of a break list: whether each has its ratio in
\* [-1, tolerance], and the sum of their demerits; fc is the fitness class
\* of the line before line k.
RECURSIVE PathCost(_, _, _)
PathCost(list, k, fc) ==
    IF k + 1 >= Len(list)
    THEN [ok |-> TRUE, total |-> DemOfInt(0)]
    ELSE LET r == LineRatio(list, k)
         IN  IF ~InRange(r, tolerance)
             THEN [ok |-> FALSE, total |-> DemOfInt(0)]
             ELSE LET rest == PathCost(list, k + 1, FitnessClass(r))
                      line == LineDemerits(r, Item(list[k + 2]),
                                  [position |-> list[k + 1], fitness_class |-> fc])
                  IN  [ok |-> rest.ok, total |-> DemAdd(line, rest.total)]

\* C3: with looseness = 0 the returned list has the minimum total demerits
\* (the sum of its lines' demerits, flagged and fitness additions included)
\* among the break lists that start at 0, end at the final forced break,
\* break at feasible breakpoints only and have every line's ratio in
\* [-1, tolerance].
C3_MinimumTotalDemerits ==
    (Returned /\ looseness = 0 /\ m >= 2 /\ line_lengths # << >>
        /\ is_forced_break(Item(m - 1))) =>
        \A S \in SUBSET FeasibleInner :
            LET other == PathCost(PathOf(S), 0, 1)
                mine == PathCost(result, 0, 1)
            IN  other.ok =>
                    /\ result[1] = 0
                    /\ Last(result) = m - 1
                    /\ mine.ok
                    /\ ~DemLess(other.total, mine.total)

\* C4: for every consecutive pair (b_k, b_k+1) of the returned list,
\* compute_adjustment_ratio(b_k, b_k+1, k, line_lengths) lies in
\* [-1, tolerance], k being the zero-based index of the line.
C4_RatiosWithinTolerance ==
    (Returned /\ m > 0) =>
        \A k \in 0..(Len(result) - 2) : InRange(LineRatio(result, k), tolerance)

\* A returned list of two lines or more, one of them stretched or shrunk.
C4_Witness ==
    /\ Returned
    /\ Len(result) >= 3
    /\ \E k \in 0..(Len(result) - 2) : LineRatio(result, k).n # 0

\* C5: the position of every forced break (a Penalty of penalty -INFINITY),
\* wherever it stands in the sequence, is in the returned list.
C5_ForcedBreaksTaken ==
    (Returned /\ m > 0) =>
        \A k \in 0..(m - 1) : is_forced_break(Item(k)) => k \in Positions(result)

\* C6: every element of the returned list but the leading 0 is a feasible
\* breakpoint: never the position of a Box, of a Penalty of penalty
\* INFINITY, or of a Glue that no Box immediately precedes.
C6_BreaksAreFeasible ==
    (Returned /\ m > 0) =>
        \A k \in 2..Len(result) :
            LET pos == result[k]
                it == Item(pos)
            IN  /\ it.kind # "box"
                /\ ~(it.kind = "penalty" /\ it.penalty = INFINITY)
                /\ it.kind = "glue" => (pos > 0 /\ Item(pos - 1).kind = "box")

\* A returned list that breaks at a glue and at a penalty.
C6_Witness ==
    /\ Returned
    /\ \E k \in 2..Len(result) : Item(result[k]).kind = "glue"
    /\ \E k \in 2..Len(result) : Item(result[k]).kind = "penalty"

\* C7: compute_breakpoints returns a list and raises no error for every
\* non-empty sequence, every tolerance and every integer looseness, also
\* when no usable line reaches the final forced break; stated here for the
\* calls whose list of line lengths is not empty.
C7_NoErrorRaised ==
    (pc = "done" /\ m > 0 /\ line_lengths # << >>) => error = "none"

\* C8: on a sequence of zero items compute_breakpoints returns the empty
\* list and does nothing else: no error, no attribute set, no node made.
C8_EmptySequence ==
    (pc # "idle" /\ m = 0) =>
        /\ pc = "done"
        /\ result = << >>
        /\ error = "none"
        /\ sum_width = << >> /\ sum_stretch = << >> /\ sum_shrink = << >>
        /\ nodes = << >> /\ active_nodes = << >> /\ chosen = 0

\* A finished call on the empty sequence.
C8_Witness == pc = "done" /\ m = 0

\* The final active nodes, and the distance of a node's line count from
\* the line count asked for by looseness.
FinalNodes == Positions(active_nodes)

FinalDelta(k) == nodes[k].line - nodes[MinNode(nodes, active_nodes)].line

LoosenessGap(k) == Abs(FinalDelta(k) - looseness)

\* C9: when looseness is not zero, the backtrace starts from the final
\* active node whose line count minus that of the minimum-demerits node is
\* as close as possible to looseness, and among the nodes of the same
\* difference from the one of lowest demerits.
C9_LoosenessClosest ==
    (Returned /\ looseness # 0 /\ m > 0) =>
        \A k \in FinalNodes :
            /\ LoosenessGap(chosen) <= LoosenessGap(k)
            /\ FinalDelta(k) = FinalDelta(chosen) =>
                   ~DemLess(nodes[k].demerits, nodes[chosen].demerits)

\* The number of lines of the list returned for looseness = 0.
OptimumLines == Len(Backtrace(nodes, MinNode(nodes, active_nodes))) - 1

\* A final active node stands for a break list of one line more.
LongerAlternative == \E k \in FinalNodes : nodes[k].line = OptimumLines + 1

\* C10: if the looseness = 0 result has n lines and a feasible list of
\* n + 1 lines exists, the result for looseness = +1 on the same input
\* never has fewer than n lines.
C10_LooserNeverShorter ==
    (Returned /\ looseness = 1 /\ m > 0 /\ LongerAlternative) =>
        Len(result) - 1 >= OptimumLines

\* A call with looseness = +1 that returned, where the optimum has a line
\* or more and a list of one line more was at hand.
C10_Witness ==
    /\ Returned
    /\ looseness = 1
    /\ m > 0
    /\ LongerAlternative
    /\ OptimumLines >= 1

\* A final active node stands for a break list of one line fewer.
ShorterAlternative == \E k \in FinalNodes : nodes[k].line = OptimumLines - 1

\* C11: if the looseness = 0 result has n lines and a feasible list of
\* n - 1 lines exists, the result for looseness = -1 on the same input
\* never has more than n lines.
C11_TighterNeverLonger ==
    (Returned /\ looseness = -1 /\ m > 0 /\ ShorterAlternative) =>
        Len(result) - 1 <= OptimumLines

\* A call with looseness = -1 that returned, where a list of one line fewer
\* than the optimum was at hand, and one of one line more as well.
C11_Witness ==
    /\ Returned
    /\ looseness = -1
    /\ m > 0
    /\ ShorterAlternative
    /\ LongerAlternative

\* The sum of one attribute over the items from .. to - 1, item by item.
RECURSIVE ItemSum(_, _, _)
ItemSum(field, from, to) ==
    IF from >= to THEN 0 ELSE Item(from)[field] + ItemSum(field, from + 1, to)

\* The width of item k when it is a Penalty, 0 otherwise.
PenaltyWidth(k) == IF Item(k).kind = "penalty" THEN Item(k).width ELSE 0

\* A call of compute_adjustment_ratio has returned.
RatioCalled == ratio_call.pos1 >= 0

\* C12: compute_adjustment_ratio(pos1, pos2, line, line_lengths) takes as
\* natural length the widths of items pos1..pos2-1 plus the width of item
\* pos2 when it is a Penalty; it returns 0 when the length equals the
\* target, (target - length)/stretch for a short line of stretch > 0,
\* (target - length)/shrink for a long line of shrink > 0, and INFINITY
\* (1000) when the stretch or shrink needed is zero.
C12_AdjustmentRatio ==
    RatioCalled =>
        LET c == ratio_call
            length == ItemSum("width", c.pos1, c.pos2) + PenaltyWidth(c.pos2)
            target == c.available_length
            stretch == ItemSum("stretch", c.pos1, c.pos2)
            shrink == ItemSum("shrink", c.pos1, c.pos2)
        IN  /\ c.length = length
            /\ length = target => c.r.n = 0
            /\ (length < target /\ stretch > 0) =>
                   c.r.n * stretch = (target - length) * c.r.d
            /\ (length > target /\ shrink > 0) =>
                   c.r.n * shrink = (target - length) * c.r.d
            /\ (length < target /\ stretch = 0) => c.r.n = INFINITY * c.r.d
            /\ (length > target /\ shrink = 0) => c.r.n = INFINITY * c.r.d

\* A call for a line that ends at a Penalty of non-zero width and is too
\* long with that width counted, the range having shrink.
C12_Witness ==
    /\ RatioCalled
    /\ PenaltyWidth(ratio_call.pos2) > 0
    /\ ratio_call.length > ratio_call.available_length
    /\ ratio_call.length - PenaltyWidth(ratio_call.pos2) <= ratio_call.available_length
    /\ ratio_call.r.n < 0

\* Entry k of a list of lengths, its last entry from the end of the list on.
TargetLength(k, lengths) ==
    IF k < Len(lengths) THEN lengths[k + 1] ELSE lengths[Len(lengths)]

\* C13: the target length used for line index k is line_lengths[k] when
\* k < len(line_lengths) and the last entry of line_lengths for every
\* k >= len(line_lengths); Document.get_text_width follows the same rule.
C13_LastLengthReused ==
    /\ RatioCalled =>
           ratio_call.available_length = TargetLength(ratio_call.line, line_lengths)
    /\ drawn > 0 => text_width = TargetLength(drawn - 1, line_lengths)

\* Two line lengths are given; a ratio was computed for a line past them
\* and a line past them was drawn.
C13_Witness ==
    /\ Len(line_lengths) = 2
    /\ RatioCalled
    /\ ratio_call.line >= 2
    /\ drawn > 2

\* Item k is a Penalty of penalty < INFINITY, or a Glue with a Box before it.
FeasibleAsClaimed(k) ==
    \/ Item(k).kind = "penalty" /\ Item(k).penalty < INFINITY
    \/ Item(k).kind = "glue" /\ k >= 1 /\ Item(k - 1).kind = "box"

\* C14: is_feasible_breakpoint(i) is true exactly when item i is a Penalty
\* whose penalty is below INFINITY, or item i is a Glue and item i - 1
\* exists and is a Box: the main loop enters the loop over the active
\* nodes at position i in these cases and in no other.
C14_FeasibleBreakpoint ==
    [][(pc = "scan" /\ i < m) => ((pc' = "inner") <=> FeasibleAsClaimed(i))]_vars

\* The main loop took a Glue for a breakpoint.
C14_Witness == pc = "inner" /\ Item(i).kind = "glue"

\* C15: is_feasible_breakpoint(0) is false whatever item 0 is, and
\* is_feasible_breakpoint(i) is false whenever item i is a Box: the main
\* loop never takes position 0, nor a Box, for a breakpoint.
C15_NeverAtZeroNorAtBox ==
    pc = "inner" => (i > 0 /\ Item(i).kind # "box")

\* The dicts of running sums have the keys pos1 and pos2.
MeasureDefined(pos1, pos2) ==
    /\ pos1 + 1 \in DOMAIN sum_width /\ pos2 + 1 \in DOMAIN sum_width
    /\ pos1 + 1 \in DOMAIN sum_stretch /\ pos2 + 1 \in DOMAIN sum_stretch
    /\ pos1 + 1 \in DOMAIN sum_shrink /\ pos2 + 1 \in DOMAIN sum_shrink

\* measure_width, measure_stretch and measure_shrink from 0 to k are defined
\* and are the sums over the items before item k.
MeasuresFromStart(k) ==
    /\ MeasureDefined(0, k)
    /\ measure_width(0, k) = ItemSum("width", 0, k)
    /\ measure_stretch(0, k) = ItemSum("stretch", 0, k)
    /\ measure_shrink(0, k) = ItemSum("shrink", 0, k)

\* C16: once compute_breakpoints has built the prefix sums, for every i
\* with 0 <= i <= len(sequence), measure_width(0, i) is defined and is the
\* sum of the widths of items 0..i-1, and likewise measure_stretch and
\* measure_shrink.
C16_MeasureFromStart ==
    sum_width # << >> => \A k \in 0 .. m : MeasuresFromStart(k)

\* The sum of the widths of the items from .. to - 1 that are not Penalties.
RECURSIVE WidthWithoutPenalties(_, _)
WidthWithoutPenalties(from, to) ==
    IF from >= to THEN 0
    ELSE (IF Item(from).kind = "penalty" THEN 0 ELSE Item(from).width)
         + WidthWithoutPenalties(from + 1, to)

\* C17: the width of a Penalty counts toward the natural length of a line
\* only when the line is broken at that Penalty; a Penalty of non-zero width
\* strictly inside the line, or at the break the line starts from, adds
\* nothing to the length compute_adjustment_ratio uses.
C17_PenaltyWidthOnlyAtBreak ==
    RatioCalled =>
        ratio_call.length =
            WidthWithoutPenalties(ratio_call.pos1, ratio_call.pos2)
            + PenaltyWidth(ratio_call.pos2)

\* A step of a call of compute_breakpoints: the call itself or a step of
\* its loops, up to its return.
CallStep == pc' # "idle" /\ pc # "done"

LineDemeritsOf(k) ==
    LET A == nodes[nodes[k].previous]
        B == Item(nodes[k].position)
        r == compute_adjustment_ratio(A.position, nodes[k].position, A.line,
                                      line_lengths)
    IN  LineDemerits(r, B, A)

\* Two demerits are the same number.
DemSame(x, y) == ~DemLess(x, y) /\ ~DemLess(y, x)

\* C19: every break node created for a usable line from active node A to
\* break B records demerits equal to A.demerits plus the demerits of the
\* line A-B, the accumulated demerits of the path from the root to it.
C19_DemeritsAccumulate ==
    \A k \in 1 .. Len(nodes) :
        nodes[k].previous # 0 =>
            DemSame(nodes[k].demerits,
                    DemAdd(nodes[nodes[k].previous].demerits, LineDemeritsOf(k)))

\* The product of two demerits that are not negative.
DemMul(x, y) ==
    [pos |-> BigMul(x.pos, y.pos), neg |-> << >>, den |-> BigMul(x.den, y.den)]

\* |r|, and 1 + 100 |r|^3, as demerits.
AbsRatio(r) == [pos |-> BigOf(Abs(r.n)), neg |-> << >>, den |-> BigOf(r.d)]

BadnessTerm(r) ==
    DemAdd(DemOfInt(1),
           DemMul(DemOfInt(100),
                  DemMul(AbsRatio(r), DemMul(AbsRatio(r), AbsRatio(r)))))

\* The demerits of a line as C20 gives them, p the penalty of the item B
\* the line ends at.
ClaimedDemerits(r, B) ==
    LET p == B.penalty
        t == BadnessTerm(r)
        tp == DemAdd(t, DemOfInt(p))
    IN  IF p >= 0 THEN DemMul(tp, DemMul(tp, tp))
        ELSE IF p = -INFINITY THEN DemAdd(DemMul(t, t), DemOfInt(-(p * p)))
        ELSE DemMul(t, t)

\* The flagged and fitness additions to the demerits of the line that ends
\* at node k.
Additions(k) ==
    LET A == nodes[nodes[k].previous]
    IN  flagged_demerit * Item(nodes[k].position).flagged * Item(A.position).flagged
        + (IF Abs(nodes[k].fitness_class - A.fitness_class) > 1
           THEN fitness_demerit ELSE 0)

\* The ratio of the line that ends at node k.
RatioOf(k) ==
    LET A == nodes[nodes[k].previous]
    IN  compute_adjustment_ratio(A.position, nodes[k].position, A.line, line_lengths)

\* Node k was made with the demerits C20 gives, and the additions.
DemeritsAsClaimed(k) ==
    DemSame(nodes[k].demerits,
            DemAdd(ClaimedDemerits(RatioOf(k), Item(nodes[k].position)),
                   DemOfInt(Additions(k))))

\* The node made last in the loop over the active nodes.
NodeJustMade == breaks[Len(breaks)]

\* C20: the demerits of a usable line of ratio r that ends at break item B,
\* before the flagged and fitness additions, are (1 + 100 |r|^3 + p(B))^3
\* when p(B) >= 0, (1 + 100 |r|^3)^2 - p(B)^2 when B is a forced break, and
\* (1 + 100 |r|^3)^2 for any other negative penalty; checked on every node
\* as it is made.
C20_BaseDemerits ==
    (pc = "inner" /\ breaks # << >>) => DemeritsAsClaimed(NodeJustMade)

\* A node made for a line of ratio not zero.
Stretched(k) == nodes[k].previous # 0 /\ RatioOf(k).n # 0

\* Nodes were made for lines of ratio not zero ending at an item of each of
\* the three kinds: penalty > 0, forced break, other negative penalty.
C20_Witness ==
    /\ pc = "inner" /\ breaks # << >>
    /\ \E k \in 1 .. Len(nodes) :
           Stretched(k) /\ Item(nodes[k].position).penalty > 0
    /\ \E k \in 1 .. Len(nodes) :
           Stretched(k) /\ Item(nodes[k].position).penalty = -INFINITY
    /\ \E k \in 1 .. Len(nodes) :
           /\ Stretched(k)
           /\ Item(nodes[k].position).penalty < 0
           /\ Item(nodes[k].position).penalty # -INFINITY

\* The fitness class C21 gives a line of ratio r = n/d.
ClaimedFitnessClass(r) ==
    CHOOSE c \in 0 .. 3 :
        /\ c = 0 <=> 2 * r.n < -r.d
        /\ c = 1 <=> (-r.d <= 2 * r.n /\ 2 * r.n <= r.d)
        /\ c = 2 <=> (r.d < 2 * r.n /\ r.n <= r.d)
        /\ c = 3 <=> r.n > r.d

\* The fitness classes of node k and of the node its line starts from
\* differ by more than 1.
ClassesFarApart(k) ==
    Abs(ClaimedFitnessClass(RatioOf(k)) - nodes[nodes[k].previous].fitness_class) > 1

C22_ActiveNeverEmpty ==
    (m > 0 /\ pc \in {"scan", "inner", "done"}) => active_nodes # << >>

\* At a forced break the only active node, due for deactivation, was kept.
C22_Witness ==
    /\ pc = "inner"
    /\ is_forced_break(Item(i))
    /\ todo = << >>
    /\ Len(active_nodes) = 1
    /\ breaks = << >>
    /\ RatioCalled /\ ratio_call.pos2 = i

\* The (position, line, fitness_class) triple of node k.
Triple(k) == << nodes[k].position, nodes[k].line, nodes[k].fitness_class >>

\* Two of the candidates recorded for the break last processed have the
\* same triple.
DuplicateCandidates ==
    \E a, b \in 1 .. Len(breaks) : a < b /\ Triple(breaks[a]) = Triple(breaks[b])

\* add_active_nodes has just returned.
Inserted == pc = "scan" /\ breaks # << >>

\* C23: after every call of add_active_nodes, and so at every step of the
\* scan, no two nodes of the active list have the same
\* (position, line, fitness_class) triple.
C23_UniqueTriples ==
    \A a, b \in 1 .. Len(active_nodes) :
        a # b => Triple(active_nodes[a]) # Triple(active_nodes[b])

\* add_active_nodes has returned from a call with two candidates of the same
\* triple.
C23_Witness == Inserted /\ DuplicateCandidates

\* C24: after every call of add_active_nodes, and so at every step of the
\* scan, the active list is sorted by non-decreasing line number.
C24_SortedByLine ==
    \A a, b \in 1 .. Len(active_nodes) :
        a < b => nodes[active_nodes[a]].line <= nodes[active_nodes[b]].line

\* add_active_nodes has returned and the active list holds nodes of two
\* line numbers or more, a candidate having gone in before the end.
C24_Witness ==
    /\ Inserted
    /\ Len(active_nodes) >= 3
    /\ nodes[active_nodes[1]].line < nodes[active_nodes[Len(active_nodes)]].line
    /\ \E a \in 1 .. Len(active_nodes) - 1 :
           active_nodes[a] > active_nodes[a + 1]

\* C25: after the insertion step for a feasible break, every distinct
\* (line, position, fitness class) triple among the candidates recorded for
\* that break is present in the active list: a duplicate candidate is
\* dropped alone and never causes other candidates to be left out.
C25_NoCandidateLeftOut ==
    Inserted =>
        \A c \in 1 .. Len(breaks) :
            \E a \in 1 .. Len(active_nodes) :
                Triple(active_nodes[a]) = Triple(breaks[c])

\* Candidate c of the break last processed is in the active list.
Kept(c) == \E a \in 1 .. Len(active_nodes) : active_nodes[a] = breaks[c]

\* C26: when several candidates recorded for one break have the same
\* (line, position, fitness class) triple, the node kept in the active list
\* is the first of them in insertion order, also when a later one has
\* fewer demerits.
C26_FirstCandidateKept ==
    Inserted =>
        \A c \in 1 .. Len(breaks) :
            Kept(c) => \A b \in 1 .. c - 1 : Triple(breaks[b]) # Triple(breaks[c])

\* Of two candidates of the same triple the first is in the active list and
\* the second, of fewer demerits, is not.
C26_Witness ==
    /\ Inserted
    /\ \E b, c \in 1 .. Len(breaks) :
           /\ b < c
           /\ Triple(breaks[b]) = Triple(breaks[c])
           /\ Kept(b)
           /\ ~Kept(c)
           /\ DemLess(nodes[breaks[c]].demerits, nodes[breaks[b]].demerits)

\* The position of the break last processed.
LastBreak == nodes[breaks[1]].position

\* C27: after a forced break at position i has been processed and at least
\* one usable line ending at i was recorded, every node of the active list
\* has position i: no node for an earlier position survives a forced
\* break.
C27_OnlyForcedBreakNodes ==
    (Inserted /\ is_forced_break(Item(LastBreak))) =>
        \A a \in 1 .. Len(active_nodes) :
            nodes[active_nodes[a]].position = LastBreak

\* Two ratios are the same number.
SameRatio(r, q) == r.n * q.d = q.n * r.d

\* C28: for every line of a compute_breakpoints result, the ratio the
\* caller computes again as
\* compute_adjustment_ratio(previous_break + 1, break, k, lengths), with
\* start 0 for the first line, equals the ratio the optimizer computed for
\* the line as compute_adjustment_ratio(previous_break, break, k, lengths).
C28_CallerRatioIsOptimizerRatio ==
    (BreaksAccepted /\ made > 0) =>
        SameRatio(ratio_call.r, LineRatio(result, made - 1))

\* The step is an overflow of the page breaker's loop: the break remembered
\* last is added and the scan goes back to the node after it.
OverflowStep == pc = "paging" /\ i < Len(items) /\ page_overflow /\ breaks' # breaks

\* The scan that ends with this step began at the node after the glue
\* remembered last, with an empty page, when that glue was added as a
\* break, and has neither remembered another glue nor added a break since.
RescanFromLast == Len(breaks) >= 2 /\ breaks[Len(breaks)] = last

\* C29: the page breaker's loop ends: a rescan from the glue remembered
\* last never overflows before it has remembered a later glue or added a
\* break, which would start the same rescan again and again.
C29_RescanMakesProgress == [][OverflowStep => ~RescanFromLast]_vars

\* The heights of the lines strictly between two positions.
RECURSIVE HeightBetween(_, _)
HeightBetween(from, to) ==
    IF from + 1 >= to THEN 0
    ELSE items[from + 2].height + HeightBetween(from + 1, to)

\* C30: the list the page breaker returns for a list of lines that is not
\* empty starts with 0, never decreases, ends with len(lines) - 1, and the
\* heights of the lines between two breaks that follow each other add up
\* to no more than the length of that page.
C30_PagesFit ==
    (PagesReturned /\ items # << >>) =>
        /\ result[1] = 0
        /\ \A k \in 1 .. Len(result) - 1 : result[k] <= result[k + 1]
        /\ result[Len(result)] = Len(items) - 1
        /\ \A k \in 1 .. Len(result) - 1 :
              HeightBetween(result[k], result[k + 1])
                  <= TargetLength(k - 1, line_lengths)

=============================================================================
